---- MODULE Spec2Model ----
(***************************************************************************)
(* A model of simcat (src/simcat/simcat.py): the admixture-interval        *)
(* utility, the parameter sampler (Model), the demographic-event builder,  *)
(* the simulation runner, the count matrix and the database manager        *)
(* (DataBase).  The code is Python 2 (raw_input, .next(), a variable named *)
(* async), so comparisons with None follow Python 2's ordering.            *)
(*                                                                         *)
(* Times (branch lengths, node heights, sampled migration times) are       *)
(* integers on a grid; a draw of np.random.uniform(low, high) is any grid  *)
(* point of low..high.                                                     *)
(***************************************************************************)
EXTENDS Integers, Sequences, FiniteSets, TLC

VARIABLES
    pc,          \* position of the operation under way
    tree,        \* the toytree the operation works on
    intervals,   \* get_all_admix_edges: the dict it returns
    \* DataBase: the label combinations and the HDF5 layout
    ntrees, nedges, ntests, nreps,
    nstored_values,   \* self.nstored_values (NoneVal until the layout is made)
    shapes,           \* first dimension of every dataset of self._db
    labelled,         \* per allocated row: how many times its labels were written
    tidx, eidx,       \* _fill_fixed_tree_database_labels: the two row cursors
    tcount,           \* trees sampled so far (the loop over range(ntrees))
    evts_left,        \* events the combinations iterator still holds
    sta, end,         \* the block the loop body writes
    \* Model: one admixture event and what _get_test_values stores for it
    theta,            \* the theta argument (a number)
    event,            \* admixture_edges[idx]: (source, dest, start, end, rate)
    test_values,      \* self.test_values: "thetas", and idx once it is stored
    \* _get_demography: one parameter set and the event list built from it
    edges,            \* per admixture edge: (source, dest, start, end, rate)
    node_heights,     \* Simulator: the stored heights of the internal nodes
    demog,            \* the list _get_demography returns
    \* run (Model and Simulator): the collection of SNPs per parameter set
    runner,           \* whose run it is: "Model" or "Simulator"
    nsnps,            \* SNPs to collect per parameter set
    nsets,            \* parameter sets to simulate (ntests*nreps, or nvalues)
    gidx,             \* parameter sets whose counts are stored
    fidx,             \* filled rows of snparr
    taken,            \* loci taken from the generator sims
    \* count_matrix
    quartsnps,        \* its argument: rows over {0,1,2,3}^4
    arr,              \* the 16x16 matrix under construction
    cidx,             \* rows counted so far
    \* DataBase.run2 and _fill_fixed_tree_database_counts
    ipyclient,        \* "given", "created", or "none" (no client was connected)
    outstanding,      \* engines busy when run2 starts
    pids,             \* engines whose pid self._ipcluster["pids"] holds
    checkpoint,       \* self.checkpoint
    asyncs,           \* job -> "pending", "ready_ok" or "ready_failed"
    counts_writes,    \* job -> times its result was written to counts
    done,             \* the progress counter
    inst,             \* the exception run2 caught ("" for none)
    aborted,          \* ipyclient.abort() was called
    killed,           \* engines sent SIGINT
    outcome,          \* how run2 ended: "", "returned" or "raised"
    opened,           \* every h5py.File the engines and the driver opened
    inst2,            \* what the cleanup of run2 raised ("" for nothing)
    queued,           \* engines with queued tasks when the cleanup asks
    stores,           \* the slices of counts the driver assigned, in order
    \* _fill_fixed_tree_database_labels: one pass of its loop body
    db,               \* the label datasets of self._db
    \* DataBase and the generator np.random
    rng,              \* the state of np.random
    seed,             \* the seed argument of DataBase
    stored,           \* the labels of each DataBase built
    \* DataBase.__init__ and the database file
    disk,             \* the file on disk
    disk_before,      \* the file on disk when the call began
    force, answer,    \* the force argument, what the user types at the prompt
    handle,           \* self._db: the mode it is open with, or "closed"
    fileops,          \* the operations on the file
    \* node_slider
    ctree,            \* the copy under modification
    todo,             \* the nodes traverse() has still to yield
    \* mutate_jc
    geno, ntips,      \* its arguments
    sitegenos,        \* what it returns
    \* msprime applying the demographic events of a simulation
    applied,          \* events of demog applied so far
    popof,            \* per sampled lineage (a leaf): the population it is in
    migmat            \* the migration matrix, per (row, column)

labelvars == <<ntrees, nedges, ntests, nreps, nstored_values, shapes, labelled,
               tidx, eidx, tcount, evts_left, sta, end>>

modelvars == <<theta, event, test_values>>

demogvars == <<edges, node_heights, demog>>

runvars == <<runner, nsnps, nsets, gidx, fidx, taken>>

countvars == <<quartsnps, arr, cidx>>

run2vars == <<ipyclient, outstanding, pids, checkpoint, asyncs, counts_writes,
              done, inst, aborted, killed, outcome, opened, inst2, queued,
              stores>>

fillvars == <<db>>

seedvars == <<rng, seed, stored>>

openvars == <<disk, disk_before, force, answer, handle, fileops>>

slidervars == <<ctree, todo>>

mutatevars == <<geno, ntips, sitegenos>>

applyvars == <<applied, popof, migmat>>

vars == <<pc, tree, intervals, labelvars, modelvars, demogvars, runvars, countvars,
          run2vars,
          fillvars, seedvars, openvars, slidervars, mutatevars,
          applyvars>>

\* what each operation leaves alone
restEdges == <<labelvars, modelvars, demogvars, runvars, countvars, run2vars,
          fillvars, seedvars, openvars, slidervars, mutatevars,
          applyvars>>
restLabels == <<modelvars, demogvars, runvars, countvars, run2vars,
          fillvars, seedvars, openvars, slidervars, mutatevars,
          applyvars>>
restModel == <<nedges, ntrees, nreps, nstored_values, shapes, labelled,
               tidx, eidx, tcount, evts_left, sta, end, demogvars, runvars, countvars,
               run2vars,
          fillvars, seedvars, openvars, slidervars, mutatevars,
          applyvars>>
restDemog == <<intervals, labelvars, event, test_values, runvars, countvars, run2vars,
          fillvars, seedvars, openvars, slidervars, mutatevars,
          applyvars>>
restRun == <<tree, intervals, labelvars, modelvars, demogvars, countvars, run2vars,
          fillvars, seedvars, openvars, slidervars, mutatevars,
          applyvars>>
restCount == <<tree, intervals, labelvars, modelvars, demogvars, runvars, run2vars,
          fillvars, seedvars, openvars, slidervars, mutatevars,
          applyvars>>
restRun2 == <<tree, intervals, ntrees, nedges, ntests, nreps, shapes, labelled,
              tidx, eidx, tcount, evts_left, sta, end, modelvars, demogvars,
              runvars, countvars,
          fillvars, seedvars, openvars, slidervars, mutatevars,
          applyvars>>

(***************************************************************************)
(* Bounds of the model.                                                    *)
(***************************************************************************)
MaxNodes == 5     \* nodes of an input tree (tips and internal nodes)
MaxDist == 2      \* longest branch length, in grid units
MaxTrees == 3     \* DataBase ntrees
MaxEdges == 1     \* DataBase nedges
MaxTests == 2     \* ntests
MaxReps == 2      \* nreps
MaxCandidates == 8  \* candidate admixture edges of a DataBase input tree
MaxSnps == 2      \* nsnps
MaxSets == 2      \* parameter sets of one run
MaxRows == 3      \* rows of the argument of count_matrix
MaxChunks == 2    \* chunks of rows the stored values fill, at most
MaxEngines == 2   \* engines of the ipyparallel cluster
MaxEventNodes == 7  \* nodes of a tree whose events are applied
MaxHeight == 3    \* height of its root, in grid units

(***************************************************************************)
(* Trees.  toytree gives the tips the idx 0..ntips-1 and the root the      *)
(* highest idx; node.up, node.dist and node.height are the attributes the  *)
(* code reads.                                                             *)
(***************************************************************************)
NoneVal == -1     \* Python's None, kept apart from every height (all >= 0)

SetMax(S) == CHOOSE x \in S : \A y \in S : y <= x
SetMin(S) == CHOOSE x \in S : \A y \in S : x <= y

RECURSIVE SumOver(_, _)
SumOver(f, S) ==
    IF S = {} THEN 0
    ELSE LET x == CHOOSE y \in S : TRUE IN f[x] + SumOver(f, S \ {x})

TreeNodes(t) == 0 .. (t.n - 1)
Root(t) == t.n - 1
is_root(t, v) == v = Root(t)
Children(t, v) == {c \in TreeNodes(t) \ {Root(t)} : t.up[c] = v}
is_leaf(t, v) == Children(t, v) = {}
Leaves(t) == {v \in TreeNodes(t) : is_leaf(t, v)}
InternalNodes(t) == {v \in TreeNodes(t) : ~is_leaf(t, v)}

RECURSIVE Ancestors(_, _)
Ancestors(t, v) ==
    IF is_root(t, v) THEN {} ELSE {t.up[v]} \cup Ancestors(t, t.up[v])

get_descendants(t, v) == {c \in TreeNodes(t) : v \in Ancestors(t, c)}

\* distance of a node from the root along node.dist
RootDist(up, dist, n, v) ==
    LET RECURSIVE D(_)
        D(x) == IF x = n - 1 THEN 0 ELSE dist[x] + D(up[x])
    IN D(v)

\* node.height as toytree stores it when a tree is built: the tree's height
\* (the farthest tip's distance from the root) minus the node's distance
NodeHeights(up, dist, n) ==
    LET top == SetMax({RootDist(up, dist, n, v) : v \in 0 .. (n - 1)})
    IN [v \in 0 .. (n - 1) |-> top - RootDist(up, dist, n, v)]

\* the shapes of n nodes: parents carry a higher idx than their children, the
\* tips are the lowest idx, and an internal node has two children or more
Shapes(n) ==
    {up \in [0 .. (n - 2) -> 1 .. (n - 1)] :
        /\ \A v \in 0 .. (n - 2) : up[v] > v
        /\ \A v \in 1 .. (n - 1) :
              LET k == Cardinality({c \in 0 .. (n - 2) : up[c] = v})
              IN /\ k # 1
                 /\ (k = 0 => \A w \in 0 .. v : \A c \in 0 .. (n - 2) : up[c] # w)}

MakeTree(n, up, dist) ==
    [n |-> n, up |-> up, dist |-> dist, height |-> NodeHeights(up, dist, n)]

TreesOf(n) ==
    {MakeTree(n, up, dist) : up \in Shapes(n), dist \in [0 .. (n - 2) -> 0 .. MaxDist]}

Trees == UNION {TreesOf(n) : n \in 3 .. MaxNodes}

(***************************************************************************)
(* get_all_admix_edges (lines 1323-1350).                                  *)
(***************************************************************************)
\* Python 2 orders None below every number
PyMax(a, b) == IF a = NoneVal THEN b ELSE IF b = NoneVal THEN a
               ELSE IF a >= b THEN a ELSE b
PyMin(a, b) == IF a = NoneVal \/ b = NoneVal THEN NoneVal
               ELSE IF a <= b THEN a ELSE b
PyGt(a, b) == IF a = NoneVal THEN FALSE ELSE IF b = NoneVal THEN TRUE ELSE a > b

\* snode.interval
NodeInterval(t, v) ==
    IF is_root(t, v) THEN <<NoneVal, NoneVal>>
    ELSE <<t.height[v], t.height[t.up[v]]>>

low_bin(t, s, d) == PyMax(NodeInterval(t, s)[1], NodeInterval(t, d)[1])
top_bin(t, s, d) == PyMin(NodeInterval(t, s)[2], NodeInterval(t, d)[2])

\* the same test with >= for >: a zero-length overlap would count
AdmixPairTestGe(t, s, d) ==
    /\ ~is_root(t, s)
    /\ s # d
    /\ ~PyGt(low_bin(t, s, d), top_bin(t, s, d))

AdmixPairTest(t, s, d) ==
    /\ ~is_root(t, s)
    /\ s # d
    /\ PyGt(top_bin(t, s, d), low_bin(t, s, d))

get_all_admix_edges(t) ==
    [k \in {p \in TreeNodes(t) \X TreeNodes(t) : AdmixPairTest(t, p[1], p[2])}
        |-> <<low_bin(t, k[1], k[2]), top_bin(t, k[1], k[2])>>]

(***************************************************************************)
(* Specification SpecEdges: get_all_admix_edges applied to every tree.     *)
(***************************************************************************)
NoTree == [n |-> 0]
NoDict == <<>>

LabelsIdle ==
    /\ ntrees = 0 /\ nedges = 0 /\ ntests = 0 /\ nreps = 0
    /\ nstored_values = NoneVal
    /\ shapes = NoDict
    /\ labelled = <<>>
    /\ tidx = 0 /\ eidx = 0 /\ tcount = 0 /\ evts_left = 0
    /\ sta = 0 /\ end = 0

ModelIdle ==
    /\ theta = 0
    /\ event = <<>>
    /\ test_values = NoDict

DemogIdle ==
    /\ edges = <<>>
    /\ node_heights = <<>>
    /\ demog = <<>>

RunIdle ==
    /\ runner = ""
    /\ nsnps = 0 /\ nsets = 0 /\ gidx = 0 /\ fidx = 0 /\ taken = 0

CountIdle ==
    /\ quartsnps = <<>>
    /\ arr = <<>>
    /\ cidx = 0

Run2Idle ==
    /\ ipyclient = "none"
    /\ outstanding = {} /\ pids = {}
    /\ checkpoint = NoneVal
    /\ asyncs = NoDict /\ counts_writes = NoDict
    /\ done = 0
    /\ inst = ""
    /\ aborted = FALSE /\ killed = {}
    /\ outcome = ""
    /\ opened = {}
    /\ inst2 = "" /\ queued = {}
    /\ stores = <<>>

FillIdle ==
    /\ db = NoDict

SeedIdle ==
    /\ rng = 0
    /\ seed = NoneVal
    /\ stored = <<>>

OpenIdle ==
    /\ disk = NoDict
    /\ disk_before = NoDict
    /\ force = FALSE
    /\ answer = ""
    /\ handle = NoneVal
    /\ fileops = <<>>

SliderIdle ==
    /\ ctree = NoTree
    /\ todo = <<>>

MutateIdle ==
    /\ geno = <<>>
    /\ ntips = 0
    /\ sitegenos = <<>>

ApplyIdle ==
    /\ applied = 0
    /\ popof = <<>>
    /\ migmat = <<>>

InitEdges ==
    /\ pc = "edges"
    /\ tree \in Trees
    /\ intervals = NoDict
    /\ LabelsIdle
    /\ ModelIdle
    /\ DemogIdle
    /\ RunIdle
    /\ CountIdle
    /\ Run2Idle
    /\ FillIdle
    /\ SeedIdle
    /\ OpenIdle
    /\ SliderIdle
    /\ MutateIdle
    /\ ApplyIdle

CallGetAllAdmixEdges ==
    /\ pc = "edges"
    /\ intervals' = get_all_admix_edges(tree)
    /\ pc' = "edges_done"
    /\ UNCHANGED <<tree, restEdges>>

NextEdges == CallGetAllAdmixEdges

SpecEdges == InitEdges /\ [][NextEdges]_vars

NonRoot(t) == TreeNodes(t) \ {Root(t)}
IntMax(a, b) == IF a >= b THEN a ELSE b
IntMin(a, b) == IF a <= b THEN a ELSE b
BranchLow(t, v) == t.height[v]
BranchHigh(t, v) == t.height[t.up[v]]
OverlapLow(t, s, d) == IntMax(BranchLow(t, s), BranchLow(t, d))
OverlapHigh(t, s, d) == IntMin(BranchHigh(t, s), BranchHigh(t, d))

\* C3: the keys of get_all_admix_edges are exactly the ordered pairs (s, d) of
\* distinct non-root nodes whose branches overlap for a positive length, the
\* value of (s, d) is (max of the lower bounds, min of the upper bounds), and
\* (s, d) is a key iff (d, s) is, with the same interval.
C3_EdgesAreOverlaps ==
    pc = "edges_done" =>
        /\ DOMAIN intervals =
              {p \in NonRoot(tree) \X NonRoot(tree) :
                  /\ p[1] # p[2]
                  /\ OverlapHigh(tree, p[1], p[2]) > OverlapLow(tree, p[1], p[2])}
        /\ \A p \in DOMAIN intervals :
              /\ intervals[p] = <<OverlapLow(tree, p[1], p[2]), OverlapHigh(tree, p[1], p[2])>>
              /\ <<p[2], p[1]>> \in DOMAIN intervals
              /\ intervals[<<p[2], p[1]>>] = intervals[p]

\* a tree with an internal non-root node where some pairs of branches overlap,
\* some touch in one point only and some tip sits above height 0
C3_Witness ==
    /\ pc = "edges_done"
    /\ DOMAIN intervals # {}
    /\ \E s \in NonRoot(tree) : \E d \in NonRoot(tree) :
          /\ s # d
          /\ OverlapHigh(tree, s, d) = OverlapLow(tree, s, d)
          /\ <<s, d>> \notin DOMAIN intervals
    /\ \E v \in NonRoot(tree) : ~is_leaf(tree, v)
    /\ \E p \in DOMAIN intervals : intervals[p][1] > 0

(***************************************************************************)
(* DataBase: the HDF5 layout and its labels (lines 842-968), for a fixed   *)
(* tree (edge_function None: the tree generator yields self.tree).         *)
(***************************************************************************)
\* scipy.special.comb(N, k), exact for these sizes
RECURSIVE comb(_, _)
comb(N, k) ==
    IF k = 0 THEN 1
    ELSE IF N = 0 THEN 0
    ELSE comb(N - 1, k - 1) + comb(N - 1, k)

Datasets == {"counts", "node_heights", "admix_sources", "admix_targets",
             "admix_props", "admix_tstarts", "admix_tends", "thetas"}

IsUltrametric(t) == \A v \in Leaves(t) : t.height[v] = 0
PositiveDists(t) == \A v \in NonRoot(t) : t.dist[v] > 0
\* one tree per shape up to a renaming of the tips
IsCanonical(t) == \A v \in 0 .. (t.n - 3) : t.up[v] <= t.up[v + 1]
SpeciesTrees == {t \in Trees : IsUltrametric(t) /\ PositiveDists(t) /\ IsCanonical(t)}

DataBaseTrees ==
    {t \in SpeciesTrees : Cardinality(DOMAIN get_all_admix_edges(t)) <= MaxCandidates}

\* the same product without the replicates
nvaluesLessReps(t, ne, ntr, nte, nre) ==
    comb(Cardinality(DOMAIN get_all_admix_edges(t)), ne) * ntr * nte

\* DataBase._generate_fixed_tree_database: nvalues (lines 861-863)
nvalues(t, ne, ntr, nte, nre) ==
    comb(Cardinality(DOMAIN get_all_admix_edges(t)), ne) * ntr * nte * nre

\* DataBase.__init__ up to a new, empty database file (lines 717-781)
InitLabels ==
    /\ pc = "generate"
    /\ tree \in DataBaseTrees
    /\ intervals = NoDict
    /\ ntrees \in 1 .. MaxTrees
    /\ nedges \in 0 .. MaxEdges
    /\ ntests \in 1 .. MaxTests
    /\ nreps \in 1 .. MaxReps
    /\ nstored_values = NoneVal
    /\ shapes = NoDict
    /\ labelled = <<>>
    /\ tidx = 0 /\ eidx = 0 /\ tcount = 0 /\ evts_left = 0
    /\ sta = 0 /\ end = 0
    /\ ModelIdle
    /\ DemogIdle
    /\ RunIdle
    /\ CountIdle
    /\ Run2Idle
    /\ FillIdle
    /\ SeedIdle
    /\ OpenIdle
    /\ SliderIdle
    /\ MutateIdle
    /\ ApplyIdle

\* _generate_fixed_tree_database, then the first lines of
\* _fill_fixed_tree_database_labels (tidx = 0)
GenerateFixedTreeDatabase ==
    /\ pc = "generate"
    /\ LET nv == nvalues(tree, nedges, ntrees, ntests, nreps) IN
          /\ nstored_values' = nv
          /\ shapes' = [d \in Datasets |-> nv]
          /\ labelled' = [r \in 0 .. (nv - 1) |-> 0]
    /\ tidx' = 0
    /\ pc' = "tree_loop"
    /\ UNCHANGED <<tree, intervals, ntrees, nedges, ntests, nreps,
                   eidx, tcount, evts_left, sta, end, restLabels>>

\* for _ in range(self.ntrees): the next tree, its candidate edges, and the
\* combinations iterator over them (lines 911-926)
FillNextTree ==
    /\ pc = "tree_loop"
    /\ tcount < ntrees
    /\ tcount' = tcount + 1
    /\ intervals' = get_all_admix_edges(tree)
    /\ eidx' = tidx
    /\ evts_left' = comb(Cardinality(DOMAIN get_all_admix_edges(tree)), nedges)
    /\ pc' = "event_loop"
    /\ UNCHANGED <<tree, ntrees, nedges, ntests, nreps, nstored_values, shapes,
                   labelled, tidx, sta, end, restLabels>>

BlockRows(a, b) == {r \in a .. (b - 1) : r \in DOMAIN labelled}

\* for evt in events: one block of labels (lines 927-967).  A slice that lies
\* wholly beyond the dataset selects no row: h5py then either refuses the
\* assignment or stores nothing, depending on its version.
FillEventBlock ==
    /\ pc = "event_loop"
    /\ evts_left > 0
    /\ LET nnn == ntests * nreps IN
          /\ sta' = eidx
          /\ end' = eidx + nnn
          /\ eidx' = eidx + nnn
          /\ labelled' = [r \in DOMAIN labelled |->
                            IF r \in BlockRows(eidx, eidx + nnn)
                            THEN labelled[r] + 1 ELSE labelled[r]]
          /\ \/ /\ evts_left' = evts_left - 1
                /\ pc' = "event_loop"
             \/ /\ BlockRows(eidx, eidx + nnn) = {}
                /\ evts_left' = evts_left
                /\ pc' = "labels_raised"
    /\ UNCHANGED <<tree, intervals, ntrees, nedges, ntests, nreps,
                   nstored_values, shapes, tidx, tcount, restLabels>>

\* the events of this tree are exhausted: tidx += eidx (line 968)
FillEndTree ==
    /\ pc = "event_loop"
    /\ evts_left = 0
    /\ tidx' = tidx + eidx
    /\ pc' = "tree_loop"
    /\ UNCHANGED <<tree, intervals, ntrees, nedges, ntests, nreps, nstored_values,
                   shapes, labelled, eidx, tcount, evts_left, sta, end, restLabels>>

\* every tree is done: the labels are stored
FillDone ==
    /\ pc = "tree_loop"
    /\ tcount = ntrees
    /\ pc' = "labels_done"
    /\ UNCHANGED <<tree, intervals, labelvars, restLabels>>

NextLabels ==
    \/ GenerateFixedTreeDatabase
    \/ FillNextTree
    \/ FillEventBlock
    \/ FillEndTree
    \/ FillDone

SpecLabels == InitLabels /\ [][NextLabels]_vars

LabelsUnderWay == pc \in {"tree_loop", "event_loop", "labels_done", "labels_raised"}

\* C1: with a fixed tree the label blocks, one of ntests*nreps consecutive rows
\* per (tree sample, edge subset), are pairwise disjoint, lie inside the
\* allocated rows and cover exactly rows 0..nvalues-1: no block starts or ends
\* outside the range, no row is labelled twice, the fill does not fail, and
\* when it ends every row has been labelled exactly once.
C1_BlocksTileRows ==
    /\ LabelsUnderWay =>
          /\ 0 <= sta /\ end <= nstored_values
          /\ \A r \in DOMAIN labelled : labelled[r] <= 1
    /\ pc # "labels_raised"
    /\ pc = "labels_done" => \A r \in DOMAIN labelled : labelled[r] = 1

\* the candidate admixture edges of a tree, counted from the branch intervals
CandidateEdges(t) ==
    {p \in NonRoot(t) \X NonRoot(t) :
        p[1] # p[2] /\ OverlapHigh(t, p[1], p[2]) > OverlapLow(t, p[1], p[2])}

\* C2: every dataset is allocated with first dimension
\* C(E, nedges) * ntrees * ntests * nreps, E the number of candidate admixture
\* edges of the input tree, and nstored_values is that number.
C2_LayoutSize ==
    LabelsUnderWay =>
        LET want == comb(Cardinality(CandidateEdges(tree)), nedges)
                      * ntrees * ntests * nreps IN
        /\ DOMAIN shapes = Datasets
        /\ \A d \in Datasets : shapes[d] = want
        /\ nstored_values = want

C2_Witness ==
    /\ pc = "tree_loop"
    /\ tcount = 0
    /\ nedges = 1 /\ ntrees > 1 /\ ntests > 1 /\ nreps > 1
    /\ nstored_values > ntrees * ntests * nreps
    /\ shapes["thetas"] = nstored_values

(***************************************************************************)
(* Model: the parameter sampler (lines 42-229), one admixture event.       *)
(* Rates are in hundredths.                                                *)
(***************************************************************************)
maxmig == 99      \* mrates[mrates > 0.99] = 0.99

\* draws of np.random.exponential(0.1): below and above the cap
ExponentialDraws == {5, 150}

\* draws of np.random.uniform(low, high)
UniformDraws(low, high) == low .. high

\* np.repeat(x, n)
Repeat(x, n) == [i \in 1 .. n |-> x]

\* a row of mtimes left as drawn
UnsortedRow(row) == row

\* np.sort(ui, axis=1): each row (a pair) in ascending order
SortRow(row) == IF row[1] <= row[2] THEN row ELSE <<row[2], row[1]>>

\* the check of a supplied interval (line 186)
GoodInterval(ev, ival) == (ev[3] >= ival[1]) /\ (ev[4] <= ival[2])

AllGiven(ev) == \A i \in 3 .. 5 : ev[i] # NoneVal

SuppliedRates == {30}
TimeInputs(t) == {NoneVal} \cup (0 .. (t.height[Root(t)] + 1))

\* events with all of start, end and rate supplied
FullEvents(t) ==
    {<<s, d, a, b, r>> :
        s \in TreeNodes(t), d \in TreeNodes(t),
        a \in TimeInputs(t) \ {NoneVal}, b \in TimeInputs(t) \ {NoneVal},
        r \in SuppliedRates}

\* events with some of start, end and rate left None; what is supplied lies
\* at the ends of the branches' overlap
PartialEvents(t) ==
    {ev \in UNION {
        LET lo == IF <<s, d>> \in CandidateEdges(t) THEN OverlapLow(t, s, d) ELSE 0
            hi == IF <<s, d>> \in CandidateEdges(t) THEN OverlapHigh(t, s, d) ELSE 0
        IN {<<s, d, a, b, r>> : a \in {NoneVal, lo}, b \in {NoneVal, hi},
                                r \in {NoneVal} \cup SuppliedRates}
        : s \in TreeNodes(t), d \in TreeNodes(t)} : ~AllGiven(ev)}

EventInputs(t) == FullEvents(t) \cup PartialEvents(t)

ModelTrees == {t \in SpeciesTrees : t.n = MaxNodes}

\* Model.__init__ up to the call of _get_test_values (lines 88-145), with one
\* admixture event
InitModel ==
    /\ pc = "model"
    /\ tree \in ModelTrees
    /\ intervals = NoDict
    /\ theta = 1
    /\ ntests \in 1 .. MaxTests
    /\ event \in EventInputs(tree)
    /\ test_values = NoDict
    /\ nedges = 0 /\ ntrees = 0 /\ nreps = 0
    /\ nstored_values = NoneVal
    /\ shapes = NoDict
    /\ labelled = <<>>
    /\ tidx = 0 /\ eidx = 0 /\ tcount = 0 /\ evts_left = 0
    /\ sta = 0 /\ end = 0
    /\ DemogIdle
    /\ RunIdle
    /\ CountIdle
    /\ Run2Idle
    /\ FillIdle
    /\ SeedIdle
    /\ OpenIdle
    /\ SliderIdle
    /\ MutateIdle
    /\ ApplyIdle

Thetas == Repeat(theta, ntests)

\* _get_test_values, an event with start, end and rate supplied (lines 181-199)
GetTestValuesGiven ==
    /\ pc = "model"
    /\ AllGiven(event)
    /\ intervals' = get_all_admix_edges(tree)
    /\ LET ivs == get_all_admix_edges(tree)
           key == <<event[1], event[2]>> IN
       IF key \notin DOMAIN ivs
       THEN /\ pc' = "model_raised"       \* KeyError
            /\ test_values' = [thetas |-> Thetas]
       ELSE IF GoodInterval(event, ivs[key])
       THEN /\ pc' = "model_done"
            /\ test_values' =
                  [thetas |-> Thetas,
                   e0 |-> [mrates |-> Repeat(event[5], ntests),
                           mtimes |-> Repeat(<<event[3], event[4]>>, ntests)]]
       ELSE /\ pc' = "model_raised"       \* "bad migration interval"
            /\ test_values' = [thetas |-> Thetas]
    /\ UNCHANGED <<tree, theta, event, ntests, restModel>>

\* _get_test_values, an event with some of start, end, rate None (lines 202-225)
GetTestValuesSampled ==
    /\ pc = "model"
    /\ ~AllGiven(event)
    /\ intervals' = get_all_admix_edges(tree)
    /\ LET ivs == get_all_admix_edges(tree)
           key == <<event[1], event[2]>> IN
       IF key \notin DOMAIN ivs
       THEN /\ pc' = "model_raised"       \* KeyError
            /\ test_values' = [thetas |-> Thetas]
       ELSE \E drawn \in [1 .. ntests -> ExponentialDraws] :
            \E ui \in [1 .. ntests ->
                         UniformDraws(ivs[key][1], ivs[key][2])
                           \X UniformDraws(ivs[key][1], ivs[key][2])] :
              /\ pc' = "model_done"
              /\ test_values' =
                    [thetas |-> Thetas,
                     e0 |-> [mrates |-> [i \in 1 .. ntests |->
                                           IF drawn[i] > maxmig THEN maxmig ELSE drawn[i]],
                             mtimes |-> [i \in 1 .. ntests |-> SortRow(ui[i])]]]
    /\ UNCHANGED <<tree, theta, event, ntests, restModel>>

NextModel ==
    \/ GetTestValuesGiven
    \/ GetTestValuesSampled

SpecModel == InitModel /\ [][NextModel]_vars

EventIsCandidate == <<event[1], event[2]>> \in CandidateEdges(tree)
EvLow == OverlapLow(tree, event[1], event[2])
EvHigh == OverlapHigh(tree, event[1], event[2])
Stored == "e0" \in DOMAIN test_values

\* C4: for an event whose timing is sampled (start, end or rate None), each of
\* the ntests (start, end) pairs of test_values lies in the overlap interval
\* of the two branches: low <= start <= end <= high.
C4_SampledTimesInOverlap ==
    (pc = "model_done" /\ ~AllGiven(event)) =>
        /\ Stored
        /\ Len(test_values.e0.mtimes) = ntests
        /\ \A i \in 1 .. ntests :
              LET row == test_values.e0.mtimes[i] IN
              /\ EvLow <= row[1]
              /\ row[1] <= row[2]
              /\ row[2] <= EvHigh

\* two tests whose sampled pairs differ, one of them of positive length
C4_Witness ==
    /\ pc = "model_done"
    /\ ~AllGiven(event)
    /\ ntests = 2
    /\ Stored
    /\ test_values.e0.mtimes[1] # test_values.e0.mtimes[2]
    /\ test_values.e0.mtimes[1][1] < test_values.e0.mtimes[1][2]
    /\ EvLow > 0

InOverlap(x) == EvLow <= x /\ x <= EvHigh

\* C5: a fully specified event is accepted only if both start and end lie in
\* the overlap interval of its branches; when start or end lies outside it,
\* construction raises and stores no test values for the event.
C5_GivenIntervalChecked ==
    (AllGiven(event) /\ EventIsCandidate /\ pc \in {"model_done", "model_raised"}) =>
        /\ pc = "model_done" => (InOverlap(event[3]) /\ InOverlap(event[4]))
        /\ ~(InOverlap(event[3]) /\ InOverlap(event[4])) =>
              (pc = "model_raised" /\ ~Stored)

\* C6: an event that leaves some of start, end, rate None and supplies the
\* others: the supplied values are used unchanged in all ntests parameter
\* sets (and the others are sampled).
C6_SuppliedValuesKept ==
    (pc = "model_done" /\ ~AllGiven(event)) =>
        /\ Stored
        /\ \A i \in 1 .. ntests :
              /\ event[3] # NoneVal => test_values.e0.mtimes[i][1] = event[3]
              /\ event[4] # NoneVal => test_values.e0.mtimes[i][2] = event[4]
              /\ event[5] # NoneVal => test_values.e0.mrates[i] = event[5]

\* C13: every migration rate _get_test_values samples for an event with free
\* parameters lies between 0.0 and 0.5 (0 and 50 hundredths).
C13_SampledRatesAtMostHalf ==
    (pc = "model_done" /\ ~AllGiven(event)) =>
        /\ Stored
        /\ \A i \in 1 .. ntests :
              0 <= test_values.e0.mrates[i] /\ test_values.e0.mrates[i] <= 50

(***************************************************************************)
(* The demographic-event builder: Model._get_demography (lines 290-342)    *)
(* and Simulator._get_demography (lines 510-577).  theta is in units of    *)
(* 2 * _mut, so that 2 * _Ne = theta.  An msprime event object is hashed   *)
(* by identity: the set holds every object added, and id tells them apart. *)
(***************************************************************************)
TwoNe == theta

\* the smallest idx among the node's children
schildOfChildren(t, v) ==
    IF Children(t, v) # {} THEN SetMin(Children(t, v)) ELSE v

\* node._schild (lines 301-305)
schild(t, v) ==
    IF Children(t, v) # {} THEN SetMin(get_descendants(t, v)) ELSE v

MassMigration(id, time, source, dest) ==
    [type |-> "MassMigration", id |-> id, time |-> time,
     source |-> source, dest |-> dest, rate |-> NoneVal]

MigrationRateChange(id, time, rate, pair) ==
    [type |-> "MigrationRateChange", id |-> id, time |-> time,
     source |-> pair[1], dest |-> pair[2], rate |-> rate]

\* the divergence events (lines 308-313), given each node's height
DivergenceEvents(t, h) ==
    {MassMigration(v, h[v] * TwoNe,
                   SetMax({schild(t, c) : c \in Children(t, v)}),
                   SetMin({schild(t, c) : c \in Children(t, v)}))
        : v \in {x \in TreeNodes(t) : Children(t, x) # {}}}

\* the migration events (lines 318-328): two per admixture edge
MigrationEvents(t, es) ==
    UNION {{MigrationRateChange(t.n + 2 * i, es[i][3] * TwoNe, es[i][5],
                                <<schild(t, es[i][1]), schild(t, es[i][2])>>),
            MigrationRateChange(t.n + 2 * i + 1, es[i][4] * TwoNe, 0,
                                <<schild(t, es[i][1]), schild(t, es[i][2])>>)}
           : i \in 1 .. Len(es)}

\* the list left in the set's iteration order, unsorted
RECURSIVE AnyOrder(_)
AnyOrder(S) ==
    IF S = {} THEN {<<>>}
    ELSE UNION {{<<e>> \o rest : rest \in AnyOrder(S \ {e})} : e \in S}

\* the orders sorted(list(demog), key=time) can return: the set is iterated in
\* any order and the sort is stable, so events of equal time come in any order
RECURSIVE SortedByTime(_)
SortedByTime(S) ==
    IF S = {} THEN {<<>>}
    ELSE LET first == SetMin({e.time : e \in S}) IN
         UNION {{<<e>> \o rest : rest \in SortedByTime(S \ {e})}
                : e \in {x \in S : x.time = first}}

\* the heights of the internal nodes in idx order, as the labels store them
\* (lines 914-918)
RECURSIVE HeightsInIdxOrder(_, _)
HeightsInIdxOrder(t, S) ==
    IF S = {} THEN <<>>
    ELSE <<t.height[SetMin(S)]>> \o HeightsInIdxOrder(t, S \ {SetMin(S)})

\* node._height as Simulator sets it from node_heights (lines 519-525)
SimHeights(t, nh) ==
    [v \in InternalNodes(t) |->
        nh[Cardinality({w \in InternalNodes(t) : w <= v})]]

\* one sampled parameter set of an admixture edge: a candidate edge, its
\* start and end at the ends of the overlap, a rate
EdgeParams(t) ==
    {<<p[1], p[2], a, b, 5>> :
        p \in CandidateEdges(t),
        a \in 0 .. t.height[Root(t)], b \in 0 .. t.height[Root(t)]}

SampledEdges(t) ==
    {e \in EdgeParams(t) :
        /\ e[3] \in {OverlapLow(t, e[1], e[2]), OverlapHigh(t, e[1], e[2])}
        /\ e[4] \in {OverlapLow(t, e[1], e[2]), OverlapHigh(t, e[1], e[2])}
        /\ e[3] <= e[4]}

ThetaInputs == {1, 2}

InitDemog ==
    /\ pc = "demog"
    /\ tree \in DataBaseTrees
    /\ theta \in ThetaInputs
    /\ edges \in UNION {[1 .. k -> SampledEdges(tree)] : k \in 0 .. MaxEdges}
    /\ node_heights = HeightsInIdxOrder(tree, InternalNodes(tree))
    /\ demog = <<>>
    /\ intervals = NoDict
    /\ LabelsIdle
    /\ event = <<>>
    /\ test_values = NoDict
    /\ RunIdle
    /\ CountIdle
    /\ Run2Idle
    /\ FillIdle
    /\ SeedIdle
    /\ OpenIdle
    /\ SliderIdle
    /\ MutateIdle
    /\ ApplyIdle

ModelGetDemography ==
    /\ pc = "demog"
    /\ demog' \in SortedByTime(DivergenceEvents(tree, tree.height)
                                  \cup MigrationEvents(tree, edges))
    /\ pc' = "demog_model"
    /\ UNCHANGED <<tree, theta, edges, node_heights, restDemog>>

SimulatorGetDemography ==
    /\ pc = "demog"
    /\ demog' \in SortedByTime(DivergenceEvents(tree, SimHeights(tree, node_heights))
                                  \cup MigrationEvents(tree, edges))
    /\ pc' = "demog_simulator"
    /\ UNCHANGED <<tree, theta, edges, node_heights, restDemog>>

NextDemog ==
    \/ ModelGetDemography
    \/ SimulatorGetDemography

SpecDemog == InitDemog /\ [][NextDemog]_vars

DemogBuilt == pc \in {"demog_model", "demog_simulator"}
DemogOfType(ty) == {i \in 1 .. Len(demog) : demog[i].type = ty}

\* C7: the list of _get_demography (Model and Simulator) is ordered by
\* non-decreasing time and holds exactly one mass-migration event per
\* internal node, and per admixture edge exactly two migration-rate changes:
\* the sampled rate at the start time and rate 0 at the end time.
C7_DemographyEvents ==
    DemogBuilt =>
        /\ \A i \in 1 .. (Len(demog) - 1) : demog[i].time <= demog[i + 1].time
        /\ Len(demog) = Cardinality(InternalNodes(tree)) + 2 * Len(edges)
        /\ \E f \in [InternalNodes(tree) -> DemogOfType("MassMigration")] :
              /\ \A v, w \in InternalNodes(tree) : v # w => f[v] # f[w]
              /\ \A v \in InternalNodes(tree) :
                    demog[f[v]].time = tree.height[v] * theta
        /\ Cardinality(DemogOfType("MassMigration")) = Cardinality(InternalNodes(tree))
        /\ \E on \in [1 .. Len(edges) -> DemogOfType("MigrationRateChange")] :
           \E off \in [1 .. Len(edges) -> DemogOfType("MigrationRateChange")] :
              /\ \A i, j \in 1 .. Len(edges) :
                    /\ on[i] # off[j]
                    /\ i # j => (on[i] # on[j] /\ off[i] # off[j])
              /\ \A i \in 1 .. Len(edges) :
                    /\ demog[on[i]].time = edges[i][3] * theta
                    /\ demog[on[i]].rate = edges[i][5]
                    /\ demog[off[i]].time = edges[i][4] * theta
                    /\ demog[off[i]].rate = 0

\* an admixture edge of zero length whose two events share their time with a
\* divergence
C7_Witness ==
    /\ DemogBuilt
    /\ Len(edges) = MaxEdges
    /\ \E i \in 1 .. Len(demog) : \E j \in 1 .. Len(demog) :
          /\ demog[i].type = "MassMigration"
          /\ demog[j].type = "MigrationRateChange"
          /\ demog[i].time = demog[j].time
    /\ \E i \in 1 .. Len(demog) :
          demog[i].type = "MigrationRateChange" /\ demog[i].rate > 0 /\ demog[i].time > 0

(***************************************************************************)
(* run: Model.run (lines 380-424) and Simulator.run (lines 590-622).  Per  *)
(* parameter set _simulate builds one generator of nsnps * 100 loci; a     *)
(* locus comes back empty (no variant site) or with a site to store.       *)
(***************************************************************************)
replicates_factor == 100     \* num_replicates = self.nsnps * 100

Runners == {"Model", "Simulator"}

InitRun ==
    /\ pc = "run_loop"
    /\ runner \in Runners
    /\ nsnps \in 1 .. MaxSnps
    /\ nsets \in 1 .. MaxSets
    /\ gidx = 0 /\ fidx = 0 /\ taken = 0
    /\ tree = NoTree
    /\ intervals = NoDict
    /\ LabelsIdle
    /\ ModelIdle
    /\ DemogIdle
    /\ CountIdle
    /\ Run2Idle
    /\ FillIdle
    /\ SeedIdle
    /\ OpenIdle
    /\ SliderIdle
    /\ MutateIdle
    /\ ApplyIdle

\* sims = self._simulate(idx); snparr = zeros; fidx = 0
Simulate ==
    /\ pc = "run_loop"
    /\ gidx < nsets
    /\ taken' = 0
    /\ fidx' = 0
    /\ pc' = "collect"
    /\ UNCHANGED <<runner, nsnps, nsets, gidx, restRun>>

\* sims.next() gives a locus with no variant site: bingenos.size is 0
NextLocusEmpty ==
    /\ pc = "collect"
    /\ fidx < nsnps
    /\ taken < nsnps * replicates_factor
    /\ taken' = taken + 1
    /\ UNCHANGED <<pc, runner, nsnps, nsets, gidx, fidx, restRun>>

\* sims.next() gives a locus with a variant site: snparr[fidx] is filled
NextLocusSnp ==
    /\ pc = "collect"
    /\ fidx < nsnps
    /\ taken < nsnps * replicates_factor
    /\ taken' = taken + 1
    /\ fidx' = fidx + 1
    /\ UNCHANGED <<pc, runner, nsnps, nsets, gidx, restRun>>

\* sims.next() on the exhausted generator raises StopIteration out of run
NextLocusStopIteration ==
    /\ pc = "collect"
    /\ fidx < nsnps
    /\ taken = nsnps * replicates_factor
    /\ pc' = "run_raised"
    /\ UNCHANGED <<runner, nsnps, nsets, gidx, fidx, taken, restRun>>

\* the while loop ends; the quartets of snparr are counted into counts[gidx]
StoreCounts ==
    /\ pc = "collect"
    /\ ~(fidx < nsnps)
    /\ gidx' = gidx + 1
    /\ pc' = "run_loop"
    /\ UNCHANGED <<runner, nsnps, nsets, fidx, taken, restRun>>

RunReturn ==
    /\ pc = "run_loop"
    /\ gidx = nsets
    /\ pc' = "run_done"
    /\ UNCHANGED <<runvars, restRun>>

NextRun ==
    \/ Simulate
    \/ NextLocusEmpty
    \/ NextLocusSnp
    \/ NextLocusStopIteration
    \/ StoreCounts
    \/ RunReturn

SpecRun == InitRun /\ [][NextRun]_vars

\* C8: for each parameter set the collection loop ends with exactly nsnps
\* filled SNP rows whatever number of loci come back empty: run never fails
\* because the simulated loci ran out, and every parameter set whose counts
\* are stored had nsnps rows.
C8_CollectsNsnps ==
    /\ pc # "run_raised"
    /\ (pc = "run_loop" /\ gidx > 0) => fidx = nsnps
    /\ pc = "run_done" => gidx = nsets

(***************************************************************************)
(* count_matrix (lines 1366-1376).                                         *)
(***************************************************************************)
Bases == 0 .. 3
Cells == (0 .. 15) \X (0 .. 15)

\* the cell a row is counted in, with the two sites' bases swapped
CellOfSwapped(i) == <<i[1] + (4 * i[2]), i[3] + (4 * i[4])>>

\* the cell a row is counted in (line 1375)
CellOf(i) == <<(4 * i[1]) + i[2], (4 * i[3]) + i[4]>>

\* the rows the matrix is fed: the row of zeros, every row with one base
\* that is not 0, and two rows of several bases
QuartetRows ==
    {<<0, 0, 0, 0>>, <<3, 3, 3, 3>>, <<1, 2, 3, 0>>} \cup
    {[k \in 1 .. 4 |-> IF k = j THEN b ELSE 0] : j \in 1 .. 4, b \in {1, 3}}

InitCount ==
    /\ pc = "count"
    /\ quartsnps \in UNION {[1 .. n -> QuartetRows] : n \in 0 .. MaxRows}
    /\ arr = [c \in Cells |-> 0]
    /\ cidx = 0
    /\ tree = NoTree
    /\ intervals = NoDict
    /\ LabelsIdle
    /\ ModelIdle
    /\ DemogIdle
    /\ RunIdle
    /\ Run2Idle
    /\ FillIdle
    /\ SeedIdle
    /\ OpenIdle
    /\ SliderIdle
    /\ MutateIdle
    /\ ApplyIdle

\* the loop body: one row counted
CountRow ==
    /\ pc = "count"
    /\ cidx < Len(quartsnps)
    /\ arr' = [arr EXCEPT ![CellOf(quartsnps[cidx + 1])] = @ + 1]
    /\ cidx' = cidx + 1
    /\ UNCHANGED <<pc, quartsnps, restCount>>

CountReturn ==
    /\ pc = "count"
    /\ cidx = Len(quartsnps)
    /\ pc' = "count_done"
    /\ UNCHANGED <<countvars, restCount>>

NextCount ==
    \/ CountRow
    \/ CountReturn

SpecCount == InitCount /\ [][NextCount]_vars

RowsEqual(a, b, c, d) ==
    {i \in 1 .. Len(quartsnps) : quartsnps[i] = <<a, b, c, d>>}

MatrixSum ==
    SumOver([r \in 0 .. 15 |-> SumOver([c \in 0 .. 15 |-> arr[<<r, c>>]], 0 .. 15)],
            0 .. 15)

\* C9: count_matrix returns the 16x16 matrix whose entry [4a+b, 4c+d] is the
\* number of rows equal to (a, b, c, d); every entry is non-negative and the
\* entries sum to the number of rows.
C9_CountMatrix ==
    pc = "count_done" =>
        /\ DOMAIN arr = Cells
        /\ \A a \in Bases : \A b \in Bases : \A c \in Bases : \A d \in Bases :
              arr[<<4 * a + b, 4 * c + d>>] = Cardinality(RowsEqual(a, b, c, d))
        /\ \A x \in Cells : arr[x] >= 0
        /\ MatrixSum = Len(quartsnps)

\* a row counted twice beside a different row
C9_Witness ==
    /\ pc = "count_done"
    /\ Len(quartsnps) = MaxRows
    /\ \E x \in Cells : arr[x] = 2
    /\ \E x \in Cells : arr[x] = 1 /\ x[1] # x[2]

(***************************************************************************)
(* DataBase.run2 (lines 1028-1093) around                                  *)
(* _fill_fixed_tree_database_counts (lines 971-1023).  The engines finish  *)
(* the submitted jobs in any order, each with success or failure.          *)
(***************************************************************************)
chunksize == 1000       \* self.chunksize

EngineIds == 1 .. MaxEngines

\* range(start, stop, step)
Range(start, stop, step) ==
    {start + k * step : k \in {i \in 0 .. stop : start + i * step < stop}}

\* nstored_values: whole and half chunks
StoredInputs == {k * (chunksize \div 2) : k \in 0 .. (2 * MaxChunks)}

\* the dict d without its key k
Without(d, k) == [x \in DOMAIN d \ {k} |-> d[x]]

\* the mode that allows writing
SimulatorModeReadWrite == "r+"

\* the mode Simulator.__init__ opens the database with (line 450)
SimulatorMode == "r"

\* io5[name][slice0:slice1]: the slice is clipped to the rows the dataset has
SliceLen(slice0, slice1) ==
    SetMax({0, SetMin({slice1, nstored_values}) - slice0})

\* self.nvalues (line 469)
SimulatorNvalues(slice0, slice1) == slice1 - slice0

\* run raises no IndexError: every idx of range(self.nvalues) is a row of
\* the sliced arrays (lines 595, 490-496)
SimulatorRuns(slice0, slice1) ==
    0 .. (SimulatorNvalues(slice0, slice1) - 1)
        \subseteq 0 .. (SliceLen(slice0, slice1) - 1)

\* the slice the results come into by their arrival
CountsSliceByArrival(job, nth) == <<(nth - 1) * chunksize, nth * chunksize>>

\* io5["counts"][job:job + self.chunksize] of the nth result stored
\* (line 1008)
CountsSlice(job, nth) == <<job, job + chunksize>>

InitRun2 ==
    /\ pc = "run2"
    /\ ipyclient \in {"given", "none"}
    /\ outstanding \in SUBSET EngineIds
    /\ nstored_values \in StoredInputs
    /\ pids = {}
    /\ checkpoint = NoneVal
    /\ asyncs = NoDict /\ counts_writes = NoDict
    /\ done = 0
    /\ inst = ""
    /\ aborted = FALSE /\ killed = {}
    /\ outcome = ""
    /\ opened = {}
    /\ inst2 = "" /\ queued = {}
    /\ stores = <<>>
    /\ tree = NoTree
    /\ intervals = NoDict
    /\ ntrees = 0 /\ nedges = 0 /\ ntests = 0 /\ nreps = 0
    /\ shapes = NoDict
    /\ labelled = <<>>
    /\ tidx = 0 /\ eidx = 0 /\ tcount = 0 /\ evts_left = 0
    /\ sta = 0 /\ end = 0
    /\ ModelIdle
    /\ DemogIdle
    /\ RunIdle
    /\ CountIdle
    /\ FillIdle
    /\ SeedIdle
    /\ OpenIdle
    /\ SliderIdle
    /\ MutateIdle
    /\ ApplyIdle

\* the try block up to the submission of every job (lines 1045-1067, 977-994)
Run2Connect ==
    /\ pc = "run2"
    /\ ipyclient' = IF ipyclient = "none" THEN "created" ELSE ipyclient
    /\ pids' = EngineIds \ outstanding
    /\ checkpoint' = 0
    /\ asyncs' = [j \in Range(0, nstored_values, chunksize) |-> "pending"]
    /\ counts_writes' = [j \in Range(0, nstored_values, chunksize) |-> 0]
    /\ done' = 0
    /\ pc' = "poll"
    /\ UNCHANGED <<outstanding, nstored_values, inst, aborted, killed, outcome, opened, inst2, queued,
                   stores, restRun2>>

\* no client was given and ipp.Client() raises: except Exception as inst
Run2ClientFails ==
    /\ pc = "run2"
    /\ ipyclient = "none"
    /\ inst' = "Exception"
    /\ pc' = "finally"
    /\ UNCHANGED <<ipyclient, outstanding, nstored_values, pids, checkpoint, asyncs,
                   counts_writes, done, aborted, killed, outcome, opened, inst2, queued,
                   stores, restRun2>>

\* an engine finishes a job: Simulator(database, job, job + chunksize) opened
\* the file, sliced its arrays and ran; it returned, or it raised (an index
\* past the sliced arrays, or any failure of a simulation)
JobFinishes ==
    /\ pc = "poll"
    /\ \E j \in DOMAIN asyncs : \E how \in {"ready_ok", "ready_failed"} :
          /\ asyncs[j] = "pending"
          /\ how = "ready_ok" => SimulatorRuns(j, j + chunksize)
          /\ asyncs' = [asyncs EXCEPT ![j] = how]
          \* the Simulator assigns to no dataset: self.counts is in memory
          /\ opened' = opened \cup
                {[by |-> "engine", job |-> j, mode |-> SimulatorMode, wrote |-> {}]}
    /\ UNCHANGED <<pc, ipyclient, outstanding, nstored_values, pids, checkpoint,
                   counts_writes, done, inst, aborted, killed, outcome, inst2, queued,
                   stores, restRun2>>

\* a finished job was successful: its counts are written, the job is deleted
\* (lines 1002-1011)
StoreResult ==
    /\ pc = "poll"
    /\ \E j \in DOMAIN asyncs :
          /\ asyncs[j] = "ready_ok"
          /\ done' = done + 1
          /\ counts_writes' = [counts_writes EXCEPT ![j] = @ + 1]
          /\ asyncs' = Without(asyncs, j)
          /\ opened' = opened \cup
                {[by |-> "driver", job |-> j, mode |-> "r+", wrote |-> {"counts"}]}
          /\ stores' = Append(stores, [job |-> j, slice |-> CountsSlice(j, done')])
    /\ UNCHANGED <<pc, ipyclient, outstanding, nstored_values, pids, checkpoint,
                   inst, aborted, killed, outcome, inst2, queued, restRun2>>

\* a finished job failed: raise SimcatError (line 1014), which run2 catches
\* with except Exception as inst (line 1074)
TaskFailed ==
    /\ pc = "poll"
    /\ \E j \in DOMAIN asyncs : asyncs[j] = "ready_failed"
    /\ inst' = "SimcatError"
    /\ pc' = "finally"
    /\ UNCHANGED <<ipyclient, outstanding, nstored_values, pids, checkpoint, asyncs,
                   counts_writes, done, aborted, killed, outcome, opened, inst2, queued,
                   stores, restRun2>>

\* the user interrupts the polling loop: except KeyboardInterrupt as inst
Interrupted ==
    /\ pc = "poll"
    /\ inst' = "KeyboardInterrupt"
    /\ pc' = "finally"
    /\ UNCHANGED <<ipyclient, outstanding, nstored_values, pids, checkpoint, asyncs,
                   counts_writes, done, aborted, killed, outcome, opened, inst2, queued,
                   stores, restRun2>>

\* len(asyncs) == 0: the loop breaks and the try block ends
FillReturns ==
    /\ pc = "poll"
    /\ DOMAIN asyncs = {}
    /\ pc' = "finally"
    /\ UNCHANGED <<run2vars, nstored_values, restRun2>>

\* how run2 ends when the finally block raises nothing: the handlers only
\* print, and no raise follows them (lines 1071-1093)
Run2Outcome(caught) == "returned"

\* every engine of the recorded ones
SignalledAll(recorded, q) == recorded

\* the engines the loop sends SIGINT: the recorded ones whose queue_status
\* shows tasks (lines 1086-1088)
Signalled(recorded, q) == recorded \cap q

\* except Exception as inst2 (line 1092) catches an Exception; a
\* KeyboardInterrupt is no Exception and leaves run2
CleanupOutcome(caught, caught2) ==
    IF caught2 = "KeyboardInterrupt" THEN "raised" ELSE Run2Outcome(caught)

\* the finally block (lines 1078-1093): with a client, abort, then SIGINT to
\* the recorded engines that still have tasks; when something in it raises,
\* the engines the loop has not reached are left alone
Cleanup ==
    /\ pc = "finally"
    /\ IF ipyclient = "none"
       THEN /\ UNCHANGED <<aborted, killed, inst2, queued>>
            /\ outcome' = Run2Outcome(inst)
       ELSE /\ aborted' = TRUE
            /\ \E q \in SUBSET EngineIds :
                  /\ queued' = q
                  /\ \/ /\ inst2' = ""
                        /\ killed' = Signalled(pids, q)
                     \* abort, queue_status and os.kill can raise an Exception,
                     \* the sleeps a KeyboardInterrupt (the user interrupts again)
                     \/ \E reached \in SUBSET pids :
                        \E err \in {"Exception", "KeyboardInterrupt"} :
                           /\ reached # pids \/ reached = {} \/ err = "KeyboardInterrupt"
                           /\ inst2' = err
                           /\ killed' = Signalled(reached, q)
            /\ outcome' = CleanupOutcome(inst, inst2')
    /\ pc' = "run2_end"
    /\ UNCHANGED <<ipyclient, outstanding, nstored_values, pids, checkpoint, asyncs,
                   counts_writes, done, inst, opened, stores, restRun2>>

NextRun2 ==
    \/ Run2Connect
    \/ Run2ClientFails
    \/ JobFinishes
    \/ StoreResult
    \/ TaskFailed
    \/ Interrupted
    \/ FillReturns
    \/ Cleanup

SpecRun2 == InitRun2 /\ [][NextRun2]_vars

\* C10: when a dispatched simulation task fails, run2 raises to its caller
\* after the cleanup of the finally block: it never returns normally after a
\* failed task.
C10_FailureRaised ==
    (pc = "run2_end" /\ inst = "SimcatError") => outcome = "raised"

\* C11: only the coordinating process writes to the HDF5 store: every file a
\* Simulator opened on an engine is opened read-only and no dataset is written
\* through it, and every write is the driver's write of "counts".
C11_OnlyDriverWrites ==
    \A o \in opened :
        /\ o.by = "engine" => (o.mode = "r" /\ o.wrote = {})
        /\ o.wrote # {} => (o.by = "driver" /\ o.wrote = {"counts"})

\* an engine has run a Simulator and the driver has stored a result
C11_Witness ==
    /\ \E o \in opened : o.by = "engine"
    /\ \E o \in opened : o.by = "driver" /\ "counts" \in o.wrote

\* the jobs _fill_fixed_tree_database_counts submitted
Jobs == DOMAIN counts_writes

\* the rows of the database a job covers: job .. job + chunksize - 1
JobRows(job) == job .. (job + chunksize - 1)

\* C12: the job ranges [job, job + chunksize) partition the rows
\* checkpoint .. nstored_values - 1, and no job, and no row index of the
\* Simulator of a job, refers to a row at or past nstored_values.
C12_JobsPartitionRows ==
    pc = "poll" =>
        /\ UNION {JobRows(j) : j \in Jobs} = checkpoint .. (nstored_values - 1)
        /\ \A j, k \in Jobs : j # k => JobRows(j) \cap JobRows(k) = {}
        /\ \A j \in Jobs :
               {j + idx : idx \in 0 .. (SimulatorNvalues(j, j + chunksize) - 1)}
                   \subseteq 0 .. (nstored_values - 1)

(***************************************************************************)
(* DataBase: the contents of one block of labels (lines 927-967), with     *)
(* nedges 0 or 1 and theta a range.  The blocks the loops wrote before it  *)
(* are in the datasets already.                                            *)
(***************************************************************************)
restFill == <<ntrees, shapes, labelled, tidx, tcount, evts_left, edges, demog,
              runvars, countvars, run2vars,
          seedvars,
          openvars,
          slidervars,
          mutatevars,
          applyvars>>

\* np.tile alone: the array repeated nr times, nothing moved
TileOnly(array, nr) ==
    [k \in 1 .. (nr * Len(array)) |-> array[((k - 1) % Len(array)) + 1]]

\* _tile_reps (lines 1354-1361): np.tile(array, nr) is nr copies of the array
\* one after the other, .reshape((nr, ts)) cuts them into nr rows, .T swaps
\* rows and columns, .flatten() joins the rows
tile_reps(array, nr) ==
    LET ts == Len(array)
        tiled == [k \in 1 .. (nr * ts) |-> array[((k - 1) % ts) + 1]]
        reshaped == [r \in 1 .. nr |-> [c \in 1 .. ts |-> tiled[(r - 1) * ts + c]]]
        transposed == [c \in 1 .. ts |-> [r \in 1 .. nr |-> reshaped[r][c]]]
    IN [k \in 1 .. (ts * nr) |-> transposed[((k - 1) \div nr) + 1][((k - 1) % nr) + 1]]

\* itt.combinations(admixedges.items(), self.nedges), as a list of
\* admixlists; the items of the dict come in ascending order
EventSeq(t, ne) ==
    LET RECURSIVE SeqOfPairs(_)
        SeqOfPairs(S) ==
            IF S = {} THEN <<>>
            ELSE LET p == CHOOSE x \in S : \A y \in S :
                              x[1] < y[1] \/ (x[1] = y[1] /\ x[2] <= y[2])
                 IN <<p>> \o SeqOfPairs(S \ {p})
        ps == SeqOfPairs(DOMAIN get_all_admix_edges(t))
    IN IF ne = 0 THEN << <<>> >>
       ELSE [k \in 1 .. Len(ps) |-> <<ps[k][1], ps[k][2], NoneVal, NoneVal, NoneVal>>]

\* sta of the m-th pass of the loop body (lines 925, 943, 967); tidx is 0
\* for the first tree, then tidx += eidx (line 968), counted in blocks
BlockStart(m, nev, nnn) ==
    LET RECURSIVE TidxBlocks(_)
        TidxBlocks(i) == IF i = 1 THEN 0 ELSE 2 * TidxBlocks(i - 1) + nev
    IN (TidxBlocks(((m - 1) \div nev) + 1) + ((m - 1) % nev)) * nnn

\* the admixlist of the m-th pass
BlockEvent(t, ne, m) ==
    LET evs == EventSeq(t, ne) IN evs[((m - 1) % Len(evs)) + 1]

\* the datasets as create_dataset makes them: zeros (lines 866-899)
EmptyDb(nv, ne, ninternal) ==
    [d \in Datasets \ {"counts"} |->
        [r \in 0 .. (nv - 1) |->
            IF d = "thetas" THEN 0
            ELSE IF d = "node_heights" THEN Repeat(0, ninternal)
            ELSE Repeat(0, ne)]]

\* what one parameter test draws: theta, the exponential draw of the rate and
\* the two uniform draws of the times, in the overlap low..high
TestDraws(low, high) ==
    {[theta |-> 1, rate |-> 5,   ui |-> <<low, low>>],
     [theta |-> 2, rate |-> 150, ui |-> <<high, high>>],
     [theta |-> 1, rate |-> 150, ui |-> <<high, low>>]}

\* model.test_values for the draws of the ntests tests (lines 169-225)
ModelValues(drawn, ev) ==
    IF ev = <<>>
    THEN [thetas |-> [i \in DOMAIN drawn |-> drawn[i].theta]]
    ELSE [thetas |-> [i \in DOMAIN drawn |-> drawn[i].theta],
          e0 |-> [mrates |-> [i \in DOMAIN drawn |->
                                IF drawn[i].rate > maxmig THEN maxmig
                                ELSE drawn[i].rate],
                  mtimes |-> [i \in DOMAIN drawn |-> SortRow(drawn[i].ui)]]]

\* dataset[sta:end] = values, and dataset[sta:end, 0] = values for a dataset
\* with a column per edge: the rows of the slice the dataset has
Assign(dataset, s0, values, col) ==
    [r \in DOMAIN dataset |->
        IF r >= s0 /\ r < s0 + Len(values)
        THEN IF col = 0 THEN values[r - s0 + 1]
             ELSE [dataset[r] EXCEPT ![col] = values[r - s0 + 1]]
        ELSE dataset[r]]

\* lines 940-965: the labels of one block
StoreBlock(d, s0, mdict, ev, nh, nt, nr) ==
    LET nnn == nt * nr
        d1 == [d EXCEPT
                 !["node_heights"] = Assign(@, s0, Repeat(nh, nnn), 0),
                 !["thetas"] = Assign(@, s0, tile_reps(mdict.thetas, nr), 0)]
    IN IF ev = <<>> THEN d1
       ELSE [d1 EXCEPT
               !["admix_sources"] = Assign(@, s0, Repeat(ev[1], nnn), 1),
               !["admix_targets"] = Assign(@, s0, Repeat(ev[2], nnn), 1),
               !["admix_props"] = Assign(@, s0, tile_reps(mdict.e0.mrates, nr), 1),
               !["admix_tstarts"] =
                   Assign(@, s0, tile_reps([i \in 1 .. nt |-> mdict.e0.mtimes[i][1]], nr), 1),
               !["admix_tends"] =
                   Assign(@, s0, tile_reps([i \in 1 .. nt |-> mdict.e0.mtimes[i][2]], nr), 1)]

\* ival of an admixlist entry (line 213)
EventInterval(t, ev) ==
    IF ev = <<>> THEN <<0, 0>> ELSE get_all_admix_edges(t)[<<ev[1], ev[2]>>]

\* the datasets after the first m passes, each test of them with the same
\* draws
RECURSIVE FilledDb(_, _, _, _, _)
FilledDb(t, ne, nt, nr, m) ==
    LET nev == Len(EventSeq(t, ne))
        nh == HeightsInIdxOrder(t, InternalNodes(t))
    IN IF m = 0 THEN EmptyDb(nvalues(t, ne, MaxTrees, nt, nr), ne, Len(nh))
       ELSE LET ev == BlockEvent(t, ne, m)
                iv == EventInterval(t, ev)
                first == [theta |-> 1, rate |-> 5, ui |-> <<iv[1], iv[1]>>]
            IN StoreBlock(FilledDb(t, ne, nt, nr, m - 1),
                          BlockStart(m, nev, nt * nr),
                          ModelValues([i \in 1 .. nt |-> first], ev),
                          ev, nh, nt, nr)

ThetaRange == <<1, 2>>

\* the loop body is about to run for the m-th time
InitFill ==
    /\ pc = "fill_model"
    /\ tree \in DataBaseTrees
    /\ intervals = get_all_admix_edges(tree)
    /\ theta = ThetaRange
    /\ nedges \in 0 .. 1
    /\ ntrees = MaxTrees
    /\ ntests \in 1 .. MaxTests
    /\ nreps \in 1 .. MaxReps
    /\ nstored_values = nvalues(tree, nedges, ntrees, ntests, nreps)
    /\ \E m \in 1 .. (ntrees * Len(EventSeq(tree, nedges))) :
          /\ tcount = ((m - 1) \div Len(EventSeq(tree, nedges))) + 1
          /\ evts_left = Len(EventSeq(tree, nedges)) - ((m - 1) % Len(EventSeq(tree, nedges)))
          /\ tidx = BlockStart((tcount - 1) * Len(EventSeq(tree, nedges)) + 1,
                               Len(EventSeq(tree, nedges)), ntests * nreps)
          /\ eidx = BlockStart(m, Len(EventSeq(tree, nedges)), ntests * nreps)
          /\ event = BlockEvent(tree, nedges, m)
          /\ db = FilledDb(tree, nedges, ntests, nreps, m - 1)
    /\ node_heights = HeightsInIdxOrder(tree, InternalNodes(tree))
    /\ test_values = NoDict
    /\ sta = 0 /\ end = 0
    /\ shapes = NoDict /\ labelled = <<>>
    /\ edges = <<>> /\ demog = <<>>
    /\ RunIdle
    /\ CountIdle
    /\ Run2Idle
    /\ SeedIdle
    /\ OpenIdle
    /\ SliderIdle
    /\ MutateIdle
    /\ ApplyIdle

\* model = Model(itree, admixture_edges=admixlist, ntests, theta) (lines 931-938)
FillModel ==
    /\ pc = "fill_model"
    /\ LET iv == EventInterval(tree, event) IN
       \E drawn \in [1 .. ntests -> TestDraws(iv[1], iv[2])] :
          test_values' = ModelValues(drawn, event)
    /\ pc' = "fill_store"
    /\ UNCHANGED <<tree, intervals, theta, event, nedges, ntests, nreps, nstored_values,
                   eidx, sta, end, node_heights, db, restFill>>

\* mdict = model.test_values ... eidx += nnn (lines 940-967).  A slice that
\* lies wholly beyond the datasets selects no row: h5py then either refuses
\* the assignment or stores nothing, depending on its version.
FillStore ==
    /\ pc = "fill_store"
    /\ sta' = eidx
    /\ end' = eidx + ntests * nreps
    /\ \/ /\ db' = StoreBlock(db, eidx, test_values, event, node_heights, ntests, nreps)
          /\ eidx' = eidx + ntests * nreps
          /\ pc' = "fill_stored"
       \/ /\ eidx >= nstored_values
          /\ UNCHANGED <<db, eidx>>
          /\ pc' = "fill_raised"
    /\ UNCHANGED <<tree, intervals, theta, event, nedges, ntests, nreps, nstored_values,
                   test_values, node_heights, restFill>>

NextFill ==
    \/ FillModel
    \/ FillStore

SpecFill == InitFill /\ [][NextFill]_vars

\* the labels of row r of the datasets
RowTheta(r) == db["thetas"][r]
RowRate(r) == db["admix_props"][r][1]
RowStart(r) == db["admix_tstarts"][r][1]
RowEnd(r) == db["admix_tends"][r][1]

\* C14: in the block of ntests*nreps rows the loop body wrote, row
\* sta + t*nreps + r (0 <= t < ntests, 0 <= r < nreps) carries the theta and,
\* for the admixture edge, the rate, start and end of parameter test t.
C14_RowsCarryTheirTest ==
    pc = "fill_stored" =>
        \A t \in 0 .. (ntests - 1) : \A r \in 0 .. (nreps - 1) :
            LET row == sta + t * nreps + r IN
            row < nstored_values =>
                /\ RowTheta(row) = test_values.thetas[t + 1]
                /\ nedges = 1 =>
                      /\ RowRate(row) = test_values.e0.mrates[t + 1]
                      /\ RowStart(row) = test_values.e0.mtimes[t + 1][1]
                      /\ RowEnd(row) = test_values.e0.mtimes[t + 1][2]

\* a block inside the datasets, of two tests that differ in every label and
\* two replicates, after an earlier block
C14_Witness ==
    /\ pc = "fill_stored"
    /\ nedges = 1 /\ ntests = 2 /\ nreps = 2
    /\ sta > 0 /\ end <= nstored_values
    /\ RowTheta(sta) # RowTheta(sta + 2)
    /\ RowRate(sta) # RowRate(sta + 2)
    /\ RowStart(sta) # RowStart(sta + 2)
    /\ RowEnd(sta) # RowEnd(sta + 2)
    /\ RowTheta(sta) = RowTheta(sta + 1)

(***************************************************************************)
(* DataBase and the random number generator (lines 699-802, 88-104,        *)
(* 169-216): two constructions with the same arguments, ntrees = 1.  The   *)
(* generator is a counter modulo RngPeriod; a draw is a function of the    *)
(* state it is taken in.                                                   *)
(***************************************************************************)
RngPeriod == 4    \* states of the generator

restSeed == <<intervals, ntrees, shapes, labelled, tidx, eidx, tcount, evts_left,
              sta, end, event, test_values, demogvars, runvars, countvars, run2vars,
              fillvars,
          openvars,
          slidervars,
          mutatevars,
          applyvars>>

\* the state after k draws
NextRng(s, k) == (s + k) % RngPeriod

\* np.random.uniform(low, high) and np.random.exponential(0.1) in state s
Uniform(s, low, high) == low + (NextRng(s, 0) % (high - low + 1))
Exponential(s) == IF NextRng(s, 0) % 2 = 0 THEN 5 ELSE 150

\* Model.__init__: if seed: np.random.seed(seed) (lines 88-90)
ModelSeeded(s, seedarg) ==
    IF seedarg # NoneVal /\ seedarg # 0 THEN seedarg % RngPeriod ELSE s

\* DataBase.__init__: the seed argument is not referred to (lines 699-802)
DataBaseSeeded(s, seedarg) == s

\* the draws of one Model, in the order of the code: _theta (line 104), the
\* thetas (173), then for the event the rates (206) and the times (215)
ModelDraws(s, nt, ev, iv) ==
    [i \in 1 .. nt |->
        [theta |-> Uniform(s + i, ThetaRange[1], ThetaRange[2]),
         rate |-> IF ev = <<>> THEN 0 ELSE Exponential(s + nt + i),
         ui |-> IF ev = <<>> THEN <<0, 0>>
                ELSE <<Uniform(s + 2 * nt + 2 * i - 1, iv[1], iv[2]),
                       Uniform(s + 2 * nt + 2 * i, iv[1], iv[2])>>]]

\* the datasets and the generator after the first m passes of the loop body
\* of _fill_fixed_tree_database_labels, started with the generator in state s
RECURSIVE SeededFill(_, _, _, _, _, _)
SeededFill(t, ne, nt, nr, m, s) ==
    LET nev == Len(EventSeq(t, ne))
        nh == HeightsInIdxOrder(t, InternalNodes(t))
    IN IF m = 0
       THEN [db |-> EmptyDb(nvalues(t, ne, 1, nt, nr), ne, Len(nh)), rng |-> s]
       ELSE LET before == SeededFill(t, ne, nt, nr, m - 1, s)
                ev == BlockEvent(t, ne, m)
                iv == EventInterval(t, ev)
                \* Model(itree, admixture_edges, ntests, theta): no seed
                s1 == ModelSeeded(before.rng, NoneVal)
                ndraws == 1 + nt + (IF ev = <<>> THEN 0 ELSE 3 * nt)
            IN [db |-> StoreBlock(before.db, BlockStart(m, nev, nt * nr),
                                  ModelValues(ModelDraws(s1, nt, ev, iv), ev),
                                  ev, nh, nt, nr),
                rng |-> NextRng(s1, ndraws)]

\* before the first construction: the generator is in any state
InitSeed ==
    /\ pc = "seed"
    /\ rng \in 0 .. (RngPeriod - 1)
    /\ seed \in {123, 124}
    /\ stored = <<>>
    /\ tree \in DataBaseTrees
    /\ theta = ThetaRange
    /\ nedges \in 0 .. 1
    /\ ntests \in 1 .. MaxTests
    /\ nreps = 1
    /\ nstored_values = NoneVal
    /\ intervals = NoDict
    /\ ntrees = 1
    /\ shapes = NoDict /\ labelled = <<>>
    /\ tidx = 0 /\ eidx = 0 /\ tcount = 0 /\ evts_left = 0
    /\ sta = 0 /\ end = 0
    /\ event = <<>> /\ test_values = NoDict
    /\ DemogIdle
    /\ RunIdle
    /\ CountIdle
    /\ Run2Idle
    /\ FillIdle
    /\ OpenIdle
    /\ SliderIdle
    /\ MutateIdle
    /\ ApplyIdle

\* DataBase(name, workdir, tree, nedges, ntrees, ntests, nreps, theta, seed)
\* on a new file: the layout, then the labels (lines 699-802)
ConstructDataBase ==
    /\ pc = "seed"
    /\ Len(stored) < 2
    /\ LET built == SeededFill(tree, nedges, ntests, nreps,
                               Len(EventSeq(tree, nedges)),
                               DataBaseSeeded(rng, seed)) IN
          /\ stored' = Append(stored, built.db)
          /\ rng' = built.rng
          /\ nstored_values' = nvalues(tree, nedges, ntrees, ntests, nreps)
    /\ UNCHANGED <<pc, tree, theta, nedges, ntests, nreps, seed, restSeed>>

\* the caller draws from np.random between the constructions
OtherDraw ==
    /\ pc = "seed"
    /\ Len(stored) < 2
    /\ rng' = NextRng(rng, 1)
    /\ UNCHANGED <<pc, tree, theta, nedges, ntests, nreps, nstored_values, seed, stored,
                   restSeed>>

NextSeed ==
    \/ ConstructDataBase
    \/ OtherDraw

SpecSeed == InitSeed /\ [][NextSeed]_vars

\* C15: the seed argument of DataBase sets the random number generator: two
\* constructions with the same arguments and the same seed store identical
\* labels, whatever was drawn before each of them.
C15_SameSeedSameLabels ==
    Len(stored) = 2 => stored[1] = stored[2]

(***************************************************************************)
(* DataBase.__init__ and the database file (lines 763-802).                *)
(***************************************************************************)
restOpen == <<tree, intervals, labelvars, modelvars, demogvars, runvars, countvars,
              run2vars, fillvars, seedvars,
          slidervars,
          mutatevars,
          applyvars>>

\* no file at self.database
Absent == [exists |-> FALSE, id |-> 0, datasets |-> {}, fills |-> 0]

\* files at self.database: an HDF5 file without datasets, the file of an
\* earlier DataBase, and a file that has "thetas" but not "counts"
ExistingFiles ==
    {[exists |-> TRUE, id |-> 1, datasets |-> {}, fills |-> 0],
     [exists |-> TRUE, id |-> 1, datasets |-> Datasets, fills |-> 1],
     [exists |-> TRUE, id |-> 1, datasets |-> {"thetas"}, fills |-> 0]}

\* the file after h5py.File(self.database, mode): "w" creates and truncates,
\* "a" opens for read and write and creates if there is no file, "w-"
\* creates; a created file is another file than any before it
H5Open(f, mode) ==
    LET created == [exists |-> TRUE, id |-> f.id + 1, datasets |-> {}, fills |-> 0]
    IN IF mode = "a" /\ f.exists THEN f ELSE created

\* what the user may type at the prompt
Answers == {"yes", "y", "Y", "YES", "Yes", "n", "no", ""}

\* every answer taken for a yes
AnyAnswer == Answers

\* the answers that confirm (line 769)
Affirmative == {"yes", "y", "Y"}

InitOpen ==
    /\ pc = "open"
    /\ disk \in ExistingFiles \cup {Absent}
    /\ disk_before = disk
    /\ force \in BOOLEAN
    /\ answer \in Answers
    /\ handle = NoneVal
    /\ fileops = <<>>
    /\ tree = NoTree
    /\ intervals = NoDict
    /\ LabelsIdle
    /\ ModelIdle
    /\ DemogIdle
    /\ RunIdle
    /\ CountIdle
    /\ Run2Idle
    /\ FillIdle
    /\ SeedIdle
    /\ SliderIdle
    /\ MutateIdle
    /\ ApplyIdle

\* lines 763-781: the file is opened, or construction is given up
OpenDatabase ==
    /\ pc = "open"
    /\ IF disk.exists
       THEN IF force
            THEN IF answer \in Affirmative
                 THEN \* os.remove, then mode "w"
                      /\ disk' = H5Open([Absent EXCEPT !.id = disk.id], "w")
                      /\ fileops' = <<"remove", "w">>
                      /\ handle' = "w"
                      /\ pc' = "opened"
                 ELSE /\ pc' = "aborted"         \* return
                      /\ UNCHANGED <<disk, fileops, handle>>
            ELSE /\ disk' = H5Open(disk, "a")
                 /\ fileops' = <<"a">>
                 /\ handle' = "a"
                 /\ pc' = "opened"
       ELSE /\ disk' = H5Open(disk, "w-")
            /\ fileops' = <<"w-">>
            /\ handle' = "w-"
            /\ pc' = "opened"
    /\ UNCHANGED <<disk_before, force, answer, restOpen>>

\* lines 783-802: the datasets are created unless "counts" is there, the
\* labels are filled and the file is closed; create_dataset raises on a name
\* the file has already
GenerateAndFill ==
    /\ pc = "opened"
    /\ IF "counts" \in disk.datasets
       THEN /\ disk' = [disk EXCEPT !.fills = @ + 1]
            /\ fileops' = fileops \o <<"fill", "close">>
            /\ handle' = "closed"
            /\ pc' = "constructed"
       ELSE IF disk.datasets = {}
       THEN /\ disk' = [disk EXCEPT !.datasets = Datasets, !.fills = @ + 1]
            /\ fileops' = fileops \o <<"create", "fill", "close">>
            /\ handle' = "closed"
            /\ pc' = "constructed"
       ELSE /\ disk' = [disk EXCEPT !.datasets = Datasets]
            /\ fileops' = fileops \o <<"create">>
            /\ handle' = handle
            /\ pc' = "open_raised"
    /\ UNCHANGED <<disk_before, force, answer, restOpen>>

NextOpen ==
    \/ OpenDatabase
    \/ GenerateAndFill

SpecOpen == InitOpen /\ [][NextOpen]_vars

OpsOf == {fileops[i] : i \in DOMAIN fileops}

\* C16: an existing database file is removed and recreated if and only if
\* force is True and the answer to the prompt is 'yes', 'y' or 'Y'; with force
\* True and any other answer construction aborts without opening or modifying
\* the file; with force False the file is opened for appending and is never
\* deleted or truncated.
C16_ForceAndAnswer ==
    (disk_before.exists /\ pc # "open") =>
        /\ ("remove" \in OpsOf /\ disk.id # disk_before.id)
              <=> (force /\ answer \in {"yes", "y", "Y"})
        /\ (force /\ answer \notin {"yes", "y", "Y"}) =>
              /\ pc = "aborted"
              /\ fileops = <<>> /\ handle = NoneVal
              /\ disk = disk_before
        /\ ~force =>
              /\ fileops[1] = "a"
              /\ OpsOf \cap {"remove", "w", "w-"} = {}
              /\ disk.exists /\ disk.id = disk_before.id
              /\ disk_before.datasets \subseteq disk.datasets

\* an existing database was overwritten after the answer Y
C16_Witness ==
    /\ pc = "constructed"
    /\ disk_before.exists /\ disk_before.datasets = Datasets
    /\ force /\ answer = "Y"
    /\ fileops = <<"remove", "w", "create", "fill", "close">>

(***************************************************************************)
(* node_slider (lines 1265-1308).  Branch lengths are on a grid SliderGrid *)
(* times finer than the grid of the input trees; a draw of                 *)
(* np.random.uniform(low, high) is any grid point between low and high.    *)
(***************************************************************************)
SliderGrid == 2   \* grid points per unit of branch length

restSlider == <<intervals, labelvars, modelvars, demogvars, runvars, countvars,
                run2vars, fillvars, seedvars, openvars,
          mutatevars,
          applyvars>>

\* the nodes of S in levelorder: by depth, the children of a node in idx order
RECURSIVE InLevelorder(_, _)
InLevelorder(t, S) ==
    LET RECURSIVE Depth(_)
        Depth(v) == IF is_root(t, v) THEN 0 ELSE 1 + Depth(t.up[v])
    IN IF S = {} THEN <<>>
       ELSE LET v == CHOOSE x \in S : \A y \in S :
                         \/ Depth(x) < Depth(y)
                         \/ Depth(x) = Depth(y) /\ x <= y
            IN <<v>> \o InLevelorder(t, S \ {v})

\* the node's branch moved the way its children's are
SlideSelfUp(dist, newheight) == dist + newheight

\* child.dist += newheight (line 1297)
SlideChild(dist, newheight) == dist + newheight

\* node.dist -= newheight (line 1300)
SlideSelf(dist, newheight) == dist - newheight

\* the grid points np.random.uniform(low=-minjit, high=maxjit) can return,
\* with minjit = 0.99 * maxchild and maxjit = 0.99 * upheight - height
\* (lines 1291-1293), compared in hundredths
SliderDraws(maxchild, upheight, height) ==
    LET low == -(99 * maxchild)
        high == 99 * upheight - 100 * height
    IN {k \in (-maxchild - height) .. upheight :
          /\ SetMin({low, high}) <= 100 * k
          /\ 100 * k <= SetMax({low, high})}

InitSlider ==
    /\ pc = "slider"
    \* the input trees: every branch of positive length
    /\ tree \in {MakeTree(t.n, t.up, [v \in DOMAIN t.dist |-> t.dist[v] * SliderGrid]) :
                   t \in {x \in Trees : PositiveDists(x) /\ IsCanonical(x)}}
    /\ ctree = NoTree
    /\ todo = <<>>
    /\ intervals = NoDict
    /\ LabelsIdle
    /\ ModelIdle
    /\ DemogIdle
    /\ RunIdle
    /\ CountIdle
    /\ Run2Idle
    /\ FillIdle
    /\ SeedIdle
    /\ OpenIdle
    /\ MutateIdle
    /\ ApplyIdle

\* ctree = copy.deepcopy(ttree); ctree.tree.traverse() (lines 1285-1286)
SliderCopy ==
    /\ pc = "slider"
    /\ ctree' = tree
    /\ todo' = InLevelorder(tree, TreeNodes(tree))
    /\ pc' = "slide"
    /\ UNCHANGED <<tree, restSlider>>

\* the next node is the root or a tip: nothing is done (line 1289)
SkipNode ==
    /\ pc = "slide"
    /\ todo # <<>>
    /\ is_root(ctree, Head(todo)) \/ is_leaf(ctree, Head(todo))
    /\ todo' = Tail(todo)
    /\ UNCHANGED <<pc, tree, ctree, restSlider>>

\* the next node is internal and not the root: it is slid (lines 1289-1300).
\* node.height is the attribute toytree stored when the tree was built
SlideNode ==
    /\ pc = "slide"
    /\ todo # <<>>
    /\ LET node == Head(todo) IN
          /\ ~is_root(ctree, node) /\ ~is_leaf(ctree, node)
          /\ \E newheight \in
                  SliderDraws(SetMax({ctree.dist[c] : c \in Children(ctree, node)}),
                              ctree.height[ctree.up[node]], ctree.height[node]) :
                ctree' = [ctree EXCEPT !.dist =
                            [v \in DOMAIN ctree.dist |->
                                IF v \in Children(ctree, node)
                                THEN SlideChild(ctree.dist[v], newheight)
                                ELSE IF v = node THEN SlideSelf(ctree.dist[v], newheight)
                                ELSE ctree.dist[v]]]
    /\ todo' = Tail(todo)
    /\ UNCHANGED <<pc, tree, restSlider>>

\* return ctree (line 1307)
SliderReturn ==
    /\ pc = "slide"
    /\ todo = <<>>
    /\ pc' = "slider_done"
    /\ UNCHANGED <<tree, ctree, todo, restSlider>>

NextSlider ==
    \/ SliderCopy
    \/ SkipNode
    \/ SlideNode
    \/ SliderReturn

SpecSlider == InitSlider /\ [][NextSlider]_vars

\* the heights of the returned tree, from its branch lengths
NewHeight(v) == NodeHeights(ctree.up, ctree.dist, ctree.n)[v]

\* C17: in the tree node_slider returns every non-root internal node's new
\* height lies between the height of its highest child and the height of its
\* parent, so every branch length is non-negative and the topology is the
\* input's.
C17_SlidBetweenChildAndParent ==
    pc = "slider_done" =>
        /\ ctree.n = tree.n /\ ctree.up = tree.up
        /\ \A v \in NonRoot(ctree) : ctree.dist[v] >= 0
        /\ \A v \in NonRoot(ctree) : ~is_leaf(ctree, v) =>
              /\ \A c \in Children(ctree, v) : NewHeight(c) <= NewHeight(v)
              /\ NewHeight(v) <= NewHeight(ctree.up[v])

\* C18: node_slider retains the total tree height: for every tip the sum of
\* the branch lengths from the root to the tip is in the returned tree what
\* it is in the input tree.
C18_PathSumsKept ==
    pc = "slider_done" =>
        \A v \in Leaves(tree) :
            RootDist(ctree.up, ctree.dist, ctree.n, v)
                = RootDist(tree.up, tree.dist, tree.n, v)

\* a node was slid: the returned tree has other branch lengths than the input
C18_Witness ==
    /\ pc = "slider_done"
    /\ \E v \in NonRoot(tree) : ~is_leaf(tree, v) /\ ctree.dist[v] # tree.dist[v]
    /\ \E v \in Leaves(tree) : ctree.dist[v] # tree.dist[v]

(***************************************************************************)
(* mutate_jc (lines 1379-1394), on the genotype matrix of one locus: a row *)
(* per variant site, a column per tip.                                     *)
(***************************************************************************)
MaxTips == 3       \* columns of a genotype matrix
MaxGenoRows == 2   \* rows of a genotype matrix

restMutate == <<tree, intervals, labelvars, modelvars, demogvars, runvars, countvars,
                run2vars, fillvars, seedvars, openvars, slidervars,
          applyvars>>

allbases == {0, 1, 2, 3}

\* every base
AnyBase(b) == allbases

\* allbases[allbases != init[0]] (line 1390)
OtherBases(b) == {x \in allbases : x # b}

\* the rows with snp.sum() not 0: the loop returns at the first of them
\* (lines 1385-1387)
SnpRows(g) == {ridx \in DOMAIN g : SumOver(g[ridx], DOMAIN g[ridx]) # 0}

InitMutate ==
    /\ pc = "mutate"
    /\ ntips \in 2 .. MaxTips
    /\ geno \in UNION {[1 .. k -> [1 .. ntips -> {0, 1}]] : k \in 0 .. MaxGenoRows}
    /\ sitegenos = <<>>
    /\ tree = NoTree
    /\ intervals = NoDict
    /\ LabelsIdle
    /\ ModelIdle
    /\ DemogIdle
    /\ RunIdle
    /\ CountIdle
    /\ Run2Idle
    /\ FillIdle
    /\ SeedIdle
    /\ OpenIdle
    /\ SliderIdle
    /\ ApplyIdle

\* some row holds a 1: the first such row is mutated (lines 1385-1392)
MutateSnp ==
    /\ pc = "mutate"
    /\ SnpRows(geno) # {}
    /\ LET snp == geno[SetMin(SnpRows(geno))] IN
       \E base \in allbases : \E notinit \in OtherBases(base) :
          sitegenos' = [i \in 1 .. ntips |-> IF snp[i] # 0 THEN notinit ELSE base]
    /\ pc' = "mutate_done"
    /\ UNCHANGED <<geno, ntips, restMutate>>

\* no row holds a 1: np.zeros(0) (line 1394)
MutateNone ==
    /\ pc = "mutate"
    /\ SnpRows(geno) = {}
    /\ sitegenos' = <<>>
    /\ pc' = "mutate_done"
    /\ UNCHANGED <<geno, ntips, restMutate>>

NextMutate ==
    \/ MutateSnp
    \/ MutateNone

SpecMutate == InitMutate /\ [][NextMutate]_vars

HasOne(snp) == \E i \in DOMAIN snp : snp[i] = 1

\* C19: for a binary genotype matrix with a row that contains a 1, mutate_jc
\* returns a vector of length ntips over {0,1,2,3} built from the first such
\* row: the tips with 0 in it share one base, the tips with 1 share another,
\* and the two bases differ.
C19_TwoBasesFromFirstSnpRow ==
    (pc = "mutate_done" /\ \E r \in DOMAIN geno : HasOne(geno[r])) =>
        LET first == SetMin({r \in DOMAIN geno : HasOne(geno[r])}) IN
        /\ Len(sitegenos) = ntips
        /\ \A i \in 1 .. ntips : sitegenos[i] \in 0 .. 3
        /\ \E b0 \in 0 .. 3 : \E b1 \in 0 .. 3 :
              /\ b0 # b1
              /\ \A i \in 1 .. ntips :
                    sitegenos[i] = IF geno[first][i] = 1 THEN b1 ELSE b0

\* the first row is all 0, the second row has both 0 and 1
C19_Witness ==
    /\ pc = "mutate_done"
    /\ Len(geno) = 2
    /\ ~HasOne(geno[1])
    /\ \E i \in 1 .. ntips : \E j \in 1 .. ntips : geno[2][i] = 0 /\ geno[2][j] = 1
    /\ Len(sitegenos) = ntips

ClientExists == ipyclient # "none"

SpecPolling ==
    /\ InitRun2
    /\ [][NextRun2]_vars
    /\ WF_vars(StoreResult)
    /\ WF_vars(FillReturns)

\* the dataset counts after the assignments of a log, the last one to a row
\* standing (line 1008): per row, the job and the row of its result, or
\* NoneVal for a row never assigned
Contents(log) ==
    [row \in 0 .. (nstored_values - 1) |->
        LET ws == {k \in 1 .. Len(log) :
                      log[k].slice[1] <= row /\ row < log[k].slice[2]}
        IN IF ws = {} THEN <<NoneVal, NoneVal>>
           ELSE <<log[SetMax(ws)].job, row - log[SetMax(ws)].slice[1]>>]

\* every job still in asyncs is ready and successful
AllReady == \A j \in DOMAIN asyncs : asyncs[j] = "ready_ok"

\* the loop has ended by its break
LoopBroke == pc = "finally" /\ inst = ""

\* C21: if every submitted job eventually becomes ready and succeeds (and
\* nobody interrupts), then in whatever order the jobs complete the polling
\* loop terminates; each job's result is written exactly once, to rows
\* [job, job + chunksize) of counts, and the job is then out of asyncs; and
\* the final contents of counts are the same for every completion order:
\* each row holds its own row of the result of the job that covers it.
C21_PollingStoresEachJobOnce ==
    /\ [](pc = "poll" =>
            \A j \in Jobs :
               /\ counts_writes[j] <= 1
               /\ (j \in DOMAIN asyncs) <=> (counts_writes[j] = 0)
               /\ counts_writes[j] =
                     Cardinality({k \in 1 .. Len(stores) : stores[k].job = j}))
    /\ [](\A k \in 1 .. Len(stores) :
             stores[k].slice = <<stores[k].job, stores[k].job + chunksize>>)
    /\ [](LoopBroke =>
            /\ \A j \in Jobs : counts_writes[j] = 1
            /\ Contents(stores) =
                  [row \in 0 .. (nstored_values - 1) |->
                      <<chunksize * (row \div chunksize), row % chunksize>>])
    /\ (/\ (pc = "poll") ~> (pc # "poll" \/ AllReady)
        /\ [](inst \notin {"KeyboardInterrupt", "SimcatError"}))
       => ((pc = "poll") ~> LoopBroke)

\* the loop broke after the last job's result was stored before the first's
C21_Witness ==
    /\ LoopBroke
    /\ Len(stores) = MaxChunks
    /\ stores[1].job > stores[Len(stores)].job


(***************************************************************************)
(* The events of _get_demography as msprime applies them: ms.simulate is   *)
(* given an all-zero migration matrix and the list (lines 361-376,         *)
(* 489-506) and applies the events in list order.  A MassMigration moves   *)
(* every lineage of its source to its dest; a MigrationRateChange sets the *)
(* one cell of the matrix its pair names.  The trees are ultrametric, with *)
(* two children or more per internal node and internal branches of any     *)
(* length, zero included.                                                  *)
(***************************************************************************)
restEvents == <<intervals, labelvars, event, test_values, runvars, countvars,
                run2vars, fillvars, seedvars, openvars, slidervars, mutatevars>>

\* the ultrametric trees of n nodes, from the heights of their internal nodes
HeightTrees(n) ==
    UNION {LET K == {up[c] : c \in 0 .. (n - 2)}
           IN {MakeTree(n, up, [v \in 0 .. (n - 2) |->
                                   hk[up[v]] - (IF v \in K THEN hk[v] ELSE 0)])
                  : hk \in {x \in [K -> 1 .. MaxHeight] :
                               \A v \in K \ {n - 1} : x[v] <= x[up[v]]}}
           : up \in Shapes(n)}

EventTrees == UNION {HeightTrees(n) : n \in 3 .. MaxEventNodes}

\* one admixture edge as the labels hold it: a candidate edge, start < end
\* in the overlap of its branches, a rate
WindowEdges(t, rate) ==
    UNION {LET iv == get_all_admix_edges(t)[p]
           IN {<<p[1], p[2], w[1], w[2], rate>> :
                  w \in {x \in (iv[1] .. iv[2]) \X (iv[1] .. iv[2]) : x[1] < x[2]}}
           : p \in DOMAIN get_all_admix_edges(t)}

\* the admixture edges of a simulation.  A tree of DataBase: one edge, or
\* two distinct candidate edges in the order of itt.combinations.  Another
\* tree: none, or (the largest trees apart) one that lasts the whole overlap
EdgeSubsets(t) ==
    IF t \in DataBaseTrees
    THEN {<<e>> : e \in WindowEdges(t, 5)}
         \cup {<<w[1], w[2]>> :
                  w \in {x \in WindowEdges(t, 5) \X WindowEdges(t, 10) :
                            \/ x[1][1] < x[2][1]
                            \/ x[1][1] = x[2][1] /\ x[1][2] < x[2][2]}}
    ELSE {<<>>}
         \cup {<<e>> : e \in {x \in WindowEdges(t, 5) :
                    /\ t.n < MaxEventNodes
                    /\ <<x[3], x[4]>> = get_all_admix_edges(t)[<<x[1], x[2]>>]}}

InitEvents ==
    /\ pc = "demog"
    /\ tree \in EventTrees \cup DataBaseTrees
    /\ theta = 2
    /\ edges \in EdgeSubsets(tree)
    /\ node_heights = HeightsInIdxOrder(tree, InternalNodes(tree))
    /\ demog = <<>>
    /\ applied = 0
    /\ popof = [l \in Leaves(tree) |-> l]
    /\ migmat = [p \in Leaves(tree) \X Leaves(tree) |-> 0]
    /\ intervals = NoDict
    /\ LabelsIdle
    /\ event = <<>>
    /\ test_values = NoDict
    /\ RunIdle
    /\ CountIdle
    /\ Run2Idle
    /\ FillIdle
    /\ SeedIdle
    /\ OpenIdle
    /\ SliderIdle
    /\ MutateIdle

\* msprime applies the next event of the list
ApplyEvent ==
    /\ pc \in {"demog_model", "demog_simulator"}
    /\ applied < Len(demog)
    /\ LET ev == demog[applied + 1] IN
       /\ popof' = IF ev.type = "MassMigration"
                   THEN [l \in DOMAIN popof |->
                            IF popof[l] = ev.source THEN ev.dest ELSE popof[l]]
                   ELSE popof
       /\ migmat' = IF ev.type = "MigrationRateChange"
                    THEN [migmat EXCEPT ![<<ev.source, ev.dest>>] = ev.rate]
                    ELSE migmat
    /\ applied' = applied + 1
    /\ UNCHANGED <<pc, tree, theta, edges, node_heights, demog, restEvents>>

NextEvents ==
    \/ ModelGetDemography
    \/ SimulatorGetDemography
    \/ ApplyEvent

SpecEvents == InitEvents /\ [][NextEvents]_vars


\* the sampled lineages below a node: its leaves, or the node if it is a leaf
LeavesBelow(t, v) ==
    IF is_leaf(t, v) THEN {v} ELSE Leaves(t) \cap get_descendants(t, v)

StrictlyBifurcating(t) ==
    \A v \in InternalNodes(t) : Cardinality(Children(t, v)) = 2

\* the event msprime has just applied is the divergence of node v
JustDiverged(v) ==
    /\ applied > 0
    /\ demog[applied].type = "MassMigration"
    /\ demog[applied].id = v

\* C22: on a strictly bifurcating tree with positive branch lengths, with the
\* leaf indices as population ids, the divergence events applied in the
\* returned order keep this: right after the event of an internal node all
\* lineages of the leaves below it are in the population of its smallest leaf
\* index; every source and dest of a divergence event is a leaf index; and
\* right after the root's event all lineages are in one population.
C22_DivergenceMergesIntoSmallestLeaf ==
    (DemogBuilt /\ StrictlyBifurcating(tree) /\ PositiveDists(tree)) =>
        /\ \A v \in InternalNodes(tree) :
              JustDiverged(v) =>
                 \A l \in LeavesBelow(tree, v) :
                    popof[l] = SetMin(LeavesBelow(tree, v))
        /\ \A i \in DemogOfType("MassMigration") :
              demog[i].source \in Leaves(tree) /\ demog[i].dest \in Leaves(tree)
        /\ JustDiverged(Root(tree)) =>
              \A l, m \in Leaves(tree) : popof[l] = popof[m]

\* four populations, two divergences of equal time, the later one first in
\* the list, and the root's event moves a population that was merged into
C22_Witness ==
    /\ DemogBuilt /\ StrictlyBifurcating(tree) /\ PositiveDists(tree)
    /\ Cardinality(Leaves(tree)) = 4
    /\ JustDiverged(Root(tree))
    /\ demog[1].time = demog[2].time /\ demog[1].id > demog[2].id
    /\ \E i \in 1 .. (applied - 1) : demog[i].dest = demog[applied].source


\* the time of the k-th event of the list; the list starts at time 0
EventTime(k) == IF k = 0 THEN 0 ELSE demog[k].time

\* the populations as they are now last for some time strictly between lo
\* and hi: from the event just applied to the next one of the list
LastsWithin(lo, hi) ==
    LET from == SetMax({EventTime(applied), lo})
    IN /\ from < hi
       /\ applied < Len(demog) => from < demog[applied + 1].time

\* the lineages in a population
LineagesIn(pop) == {l \in DOMAIN popof : popof[l] = pop}

\* the event that switches the i-th admixture edge on
SwitchOn(i) == CHOOSE k \in 1 .. Len(demog) : demog[k].id = tree.n + 2 * i

\* C23: for every admixture edge (s, d) with start and end inside the overlap
\* of branches s and d, at every time strictly between start and end the two
\* populations its migration-rate changes name hold exactly the lineages that
\* descend through branch s and exactly those that descend through branch d.
C23_MigrationPairHoldsBranches ==
    DemogBuilt =>
        \A i \in 1 .. Len(edges) :
            LastsWithin(edges[i][3] * theta, edges[i][4] * theta) =>
               /\ LineagesIn(demog[SwitchOn(i)].source) = LeavesBelow(tree, edges[i][1])
               /\ LineagesIn(demog[SwitchOn(i)].dest) = LeavesBelow(tree, edges[i][2])


\* the populations as they are now last for some time: the next event of the
\* list, if there is one, comes later than the one just applied
Lasts == applied < Len(demog) => EventTime(applied) < demog[applied + 1].time

\* the admixture edges mapped to a pair of populations whose window
\* [start, end) holds the time of the event just applied
EdgesActive(pair) ==
    {i \in 1 .. Len(edges) :
        /\ <<schild(tree, edges[i][1]), schild(tree, edges[i][2])>> = pair
        /\ edges[i][3] * theta <= EventTime(applied)
        /\ EventTime(applied) < edges[i][4] * theta}

====
